---- MODULE Spec2Model ----
(***************************************************************************)
(* SmartFactorBase<POSE, CALIBRATION, D> (gtsam_unstable/slam):  the       *)
(* measurement set of a smart factor (the parallel arrays measured_,       *)
(* keys_, noise_ and the optional sensor offset body_P_sensor_), its four  *)
(* add operations, equals, serialization, the residual / Jacobian          *)
(* assembly and the two Schur complement routines.                         *)
(*                                                                         *)
(* Values.  A Point2 is a pair <<x, y>> of integers, a Key a small         *)
(* integer, a SharedNoiseModel the integer weight of an isotropic          *)
(* whitener, a boost::optional<POSE> a sequence of length 0 (boost::none)  *)
(* or 1.  A std::vector is a sequence; index i of the code is index i + 1  *)
(* here.  A matrix is a sequence of rows.                                  *)
(***************************************************************************)
EXTENDS Integers, Sequences, FiniteSets, TLC

VARIABLES measured_, keys_, noise_, body_P_sensor_, archive, other, pend, lin, ret

vars == <<measured_, keys_, noise_, body_P_sensor_, archive, other, pend, lin, ret>>

(***************************************************************************)
(* Bounds of the model.                                                    *)
(***************************************************************************)
\* longest measurement set a factor grows to
MaxLen == 2
\* longest input vector of a batch add or track
MaxBatch == 2

\* the values measurements, keys, noise models and sensor offsets are drawn from
Pixels == {<<0, 0>>, <<1, 0>>}
Keys == {1, 2}
Noises == {1, 2}
Offsets == {<<>>, <<0>>, <<1>>}
\* the <<pixel, key, noise>> triples a single add is given
Observations == {<< <<0, 0>>, 1, 1 >>, << <<1, 0>>, 2, 2 >>}
\* what the vectors of a batch add and the entries of a track are filled with
BatchPixels == {<<0, 0>>}
BatchKeys == {1}
BatchNoises == {1}
TrackEntries == {<<1, <<0, 0>> >>}

\* all sequences over S of length 0..n
SeqsUpTo(S, n) == UNION {[1..k -> S] : k \in 0..n}

(***************************************************************************)
(* The factor: its three parallel arrays and the optional sensor offset.   *)
(***************************************************************************)
Factor(m, k, n, o) == [measured_ |-> m, keys_ |-> k, noise_ |-> n, body_P_sensor_ |-> o]

\* the factor the state variables hold
This == Factor(measured_, keys_, noise_, body_P_sensor_)

\* SmartFactorBase(body_P_sensor): empty arrays, the offset as given
SmartFactorBase(body_P_sensor) == Factor(<<>>, <<>>, <<>>, body_P_sensor)

(***************************************************************************)
(* The four add operations.  Each returns the factor as the call leaves    *)
(* it and how the call ended: "ok", or "out_of_range" when a               *)
(* std::vector::at of the loop throws.  What was pushed before the throw   *)
(* stays pushed.                                                           *)
(***************************************************************************)
\* add(measured_i, poseKey_i, noise_i)
add(f, measured_i, poseKey_i, noise_i) ==
  [f EXCEPT !.measured_ = Append(@, measured_i),
            !.keys_ = Append(@, poseKey_i),
            !.noise_ = Append(@, noise_i)]

\* the loop of add(measurements, poseKeys, noises) from index i on
RECURSIVE addNoisesLoop(_, _, _, _, _)
addNoisesLoop(f, measurements, poseKeys, noises, i) ==
  IF i > Len(measurements) THEN [status |-> "ok", factor |-> f]
  ELSE LET f1 == [f EXCEPT !.measured_ = Append(@, measurements[i])]
       IN IF i > Len(poseKeys) THEN [status |-> "out_of_range", factor |-> f1]
          ELSE LET f2 == [f1 EXCEPT !.keys_ = Append(@, poseKeys[i])]
               IN IF i > Len(noises) THEN [status |-> "out_of_range", factor |-> f2]
                  ELSE addNoisesLoop([f2 EXCEPT !.noise_ = Append(@, noises[i])],
                                     measurements, poseKeys, noises, i + 1)

\* add(measurements, poseKeys, noises)
addNoises(f, measurements, poseKeys, noises) ==
  addNoisesLoop(f, measurements, poseKeys, noises, 1)

\* the loop of add(measurements, poseKeys, noise) from index i on
RECURSIVE addSharedLoop(_, _, _, _, _)
addSharedLoop(f, measurements, poseKeys, noise, i) ==
  IF i > Len(measurements) THEN [status |-> "ok", factor |-> f]
  ELSE LET f1 == [f EXCEPT !.measured_ = Append(@, measurements[i])]
       IN IF i > Len(poseKeys) THEN [status |-> "out_of_range", factor |-> f1]
          ELSE addSharedLoop([f1 EXCEPT !.keys_ = Append(@, poseKeys[i]),
                                        !.noise_ = Append(@, noise)],
                             measurements, poseKeys, noise, i + 1)

\* mutant of addShared: the loop starts one measurement late
addSharedMut(f, measurements, poseKeys, noise) ==
  addSharedLoop(f, measurements, poseKeys, noise, 2)

\* add(measurements, poseKeys, noise)
addShared(f, measurements, poseKeys, noise) ==
  addSharedLoop(f, measurements, poseKeys, noise, 1)

\* the loop of add(trackToAdd, noise) from index k on; a track is a sequence
\* of <<key, pixel>> pairs and number_measurements() its length
RECURSIVE addTrackLoop(_, _, _, _)
addTrackLoop(f, trackToAdd, noise, k) ==
  IF k > Len(trackToAdd) THEN f
  ELSE addTrackLoop([f EXCEPT !.measured_ = Append(@, trackToAdd[k][2]),
                              !.keys_ = Append(@, trackToAdd[k][1]),
                              !.noise_ = Append(@, noise)],
                    trackToAdd, noise, k + 1)

\* add(trackToAdd, noise)
addTrack(f, trackToAdd, noise) == addTrackLoop(f, trackToAdd, noise, 1)

(***************************************************************************)
(* Dense linear algebra as the code uses it (Eigen, gtsam/base/Matrix.h).  *)
(* Exact integer arithmetic stands for the code's doubles.                 *)
(***************************************************************************)
\* the camera variable dimension, the template parameter D
D == 6

RECURSIVE SumTo(_, _)
\* g[1] + ... + g[n]
SumTo(g, n) == IF n = 0 THEN 0 ELSE SumTo(g, n - 1) + g[n]

\* zero(n): the zero vector
zero(n) == [i \in 1..n |-> 0]
\* zeros(r, c): the zero matrix
zeros(r, c) == [i \in 1..r |-> [j \in 1..c |-> 0]]
\* eye(n): the identity
eye(n) == [i \in 1..n |-> [j \in 1..n |-> IF i = j THEN 1 ELSE 0]]

\* A(r x n) * B(n x c)
MatMul(A, B, r, n, c) ==
  [i \in 1..r |-> [j \in 1..c |-> SumTo([k \in 1..n |-> A[i][k] * B[k][j]], n)]]
\* A(r x n) * v(n)
MatVec(A, v, r, n) == [i \in 1..r |-> SumTo([k \in 1..n |-> A[i][k] * v[k]], n)]
\* transpose of A(r x c)
Transpose(A, r, c) == [j \in 1..c |-> [i \in 1..r |-> A[i][j]]]
\* A - B, both r x c
MatSub(A, B, r, c) == [i \in 1..r |-> [j \in 1..c |-> A[i][j] - B[i][j]]]
\* s * A
MatScale(s, A, r, c) == [i \in 1..r |-> [j \in 1..c |-> s * A[i][j]]]
\* u - v and s * v on vectors of length n
VecSub(u, v, n) == [i \in 1..n |-> u[i] - v[i]]
VecScale(s, v, n) == [i \in 1..n |-> s * v[i]]
\* v.squaredNorm()
squaredNorm(v, n) == SumTo([k \in 1..n |-> v[k] * v[k]], n)
\* M.block<h, w>(r0, c0), r0 and c0 counted from 0 as in the code
Block(M, r0, c0, h, w) == [i \in 1..h |-> [j \in 1..w |-> M[r0 + i][c0 + j]]]
\* v.segment<h>(r0)
Segment(v, r0, h) == [i \in 1..h |-> v[r0 + i]]
\* M.block<h, w>(r0, 0) = B on a matrix of w columns
SetRows(M, r0, B, h) ==
  [i \in 1..Len(M) |-> IF i > r0 /\ i <= r0 + h THEN B[i - r0] ELSE M[i]]
\* subInsert(v, s, r0)
subInsert(v, s, r0, h) ==
  [i \in 1..Len(v) |-> IF i > r0 /\ i <= r0 + h THEN s[i - r0] ELSE v[i]]

\* the determinant and the adjugate of a 3 x 3 matrix; M.inverse() is
\* Adj3(M) / Det3(M), kept as the pair [num, den] (den = 0: not finite)
Det3(M) ==
  M[1][1] * (M[2][2] * M[3][3] - M[2][3] * M[3][2])
  - M[1][2] * (M[2][1] * M[3][3] - M[2][3] * M[3][1])
  + M[1][3] * (M[2][1] * M[3][2] - M[2][2] * M[3][1])
Nxt3(i) == (i % 3) + 1
Adj3(M) ==
  [i \in 1..3 |-> [j \in 1..3 |->
     M[Nxt3(j)][Nxt3(i)] * M[Nxt3(Nxt3(j))][Nxt3(Nxt3(i))]
     - M[Nxt3(j)][Nxt3(Nxt3(i))] * M[Nxt3(Nxt3(j))][Nxt3(i)]]]
inverse(M) == [num |-> Adj3(M), den |-> Det3(M)]

(***************************************************************************)
(* The consumed interfaces: the pinhole camera and the noise model.        *)
(* A camera is the integer position of its centre on the optical axis, a   *)
(* point its integer position on that axis; the point is behind the camera *)
(* (cheirality) when it is not strictly in front of the centre.            *)
(***************************************************************************)
Cams == {0, 1}
Points == {1, 2}

\* Camera::project(point, Fi, Ei, Hcali): the pixel and the three Jacobians
project(camera, point) ==
  [cheirality |-> point - camera <= 0,
   pixel |-> <<point - camera, camera>>,
   Fi |-> <<  <<-1, 0, 0, 0, point, camera>>, <<0, -1, 0, camera, 0, point>>  >>,
   Ei |-> <<  <<1, 0, camera>>, <<0, 1, point>>  >>,
   Hcali |-> [r \in 1..2 |-> [c \in 1..(D - 6) |-> camera + r + c]]]

\* pose.compose(body_P_sensor): the camera moved by the sensor offset
compose(camera, body_P_sensor) == camera + body_P_sensor

\* noise->WhitenSystem(Fi, Ei, Hcali, bi): every block scaled by the weight
WhitenSystem(noise, Fi, Ei, Hcali, bi) ==
  [Fi |-> MatScale(noise, Fi, 2, 6), Ei |-> MatScale(noise, Ei, 2, 3),
   Hcali |-> MatScale(noise, Hcali, 2, D - 6), bi |-> VecScale(noise, bi, 2)]

\* noise->distance(v): the squared norm of the whitened vector
distance(noise, v) == noise * noise * squaredNorm(v, 2)

(***************************************************************************)
(* Residuals and Jacobians.  A call ends "ok" (it returns), "exit" (the    *)
(* catch of CheiralityException: exit(EXIT_FAILURE)), "out_of_range" (a    *)
(* std::vector::at throws) or "undefined" (an unchecked index past the     *)
(* end: cameras[i], keys_[i], E.block).  processed counts the measurements *)
(* whose loop body ran to its end.                                         *)
(***************************************************************************)
\* how a call that does not return is recorded
Failed(status, processed) ==
  [status |-> status, processed |-> processed, value |-> <<>>,
   Fblocks |-> <<>>, E |-> <<>>, b |-> <<>>, f |-> 0, PointCov |-> <<>>]

\* how a call that returns is recorded
Returned(processed, value, Fblocks, E, b, f, PointCov) ==
  [status |-> "ok", processed |-> processed, value |-> value,
   Fblocks |-> Fblocks, E |-> E, b |-> b, f |-> f, PointCov |-> PointCov]

\* mutant of catchCheirality: the exception is swallowed and the call returns
catchCheiralityMut(processed) == Returned(processed, <<>>, <<>>, <<>>, <<>>, 0, <<>>)

\* catch (CheiralityException&): "Cheirality exception" is printed and the
\* process exits
catchCheirality(processed) == Failed("exit", processed)

RECURSIVE reprojectionErrorLoop(_, _, _, _, _)
\* the BOOST_FOREACH of reprojectionError from camera i on
reprojectionErrorLoop(fac, cameras, point, b, i) ==
  IF i > Len(cameras) THEN Returned(i - 1, b, <<>>, <<>>, <<>>, 0, <<>>)
  ELSE IF i > Len(fac.measured_) THEN Failed("out_of_range", i - 1)
  ELSE LET zi == fac.measured_[i]
           pr == project(cameras[i], point)
           e == VecSub(pr.pixel, zi, 2)
       IN IF pr.cheirality THEN catchCheirality(i - 1)
          ELSE reprojectionErrorLoop(fac, cameras, point,
                                     subInsert(b, e, 2 * (i - 1), 2), i + 1)

\* reprojectionError(cameras, point): the stacked unwhitened residual
reprojectionError(fac, cameras, point) ==
  reprojectionErrorLoop(fac, cameras, point, zero(2 * Len(cameras)), 1)

RECURSIVE totalReprojectionErrorLoop(_, _, _, _, _)
\* the BOOST_FOREACH of totalReprojectionError from camera i on; overallError
\* is counted in halves, so that 0.5 * distance adds distance
totalReprojectionErrorLoop(fac, cameras, point, overallError, i) ==
  IF i > Len(cameras) THEN Returned(i - 1, overallError, <<>>, <<>>, <<>>, 0, <<>>)
  ELSE IF i > Len(fac.measured_) THEN Failed("out_of_range", i - 1)
  ELSE LET zi == fac.measured_[i]
           pr == project(cameras[i], point)
           e == VecSub(pr.pixel, zi, 2)
       IN IF pr.cheirality THEN catchCheirality(i - 1)
          ELSE IF i > Len(fac.noise_) THEN Failed("out_of_range", i - 1)
          ELSE totalReprojectionErrorLoop(fac, cameras, point,
                 overallError + distance(fac.noise_[i], e), i + 1)

\* totalReprojectionError(cameras, point), in halves
totalReprojectionError(fac, cameras, point) ==
  totalReprojectionErrorLoop(fac, cameras, point, 0, 1)

\* E.transpose() * E of a matrix of n rows and 3 columns
EtEof(E) ==
  [r \in 1..3 |-> [c \in 1..3 |-> SumTo([k \in 1..Len(E) |-> E[k][r] * E[k][c]], Len(E))]]

RECURSIVE computeEPLoop(_, _, _, _, _)
\* the loop of computeEP from measurement i on
computeEPLoop(fac, cameras, point, E, i) ==
  IF i > Len(fac.measured_)
  THEN Returned(i - 1, <<>>, <<>>, E, <<>>, 0, inverse(EtEof(E)))
  ELSE IF i > Len(cameras) THEN Failed("undefined", i - 1)
  ELSE LET pr == project(cameras[i], point)
       IN IF pr.cheirality THEN catchCheirality(i - 1)
          ELSE IF i > Len(fac.noise_) THEN Failed("out_of_range", i - 1)
          ELSE IF i > Len(fac.keys_) THEN Failed("undefined", i - 1)
          ELSE computeEPLoop(fac, cameras, point,
                 SetRows(E, 2 * (i - 1), MatScale(fac.noise_[i], pr.Ei, 2, 3), 2), i + 1)

\* computeEP(E, PointCov, cameras, point)
computeEP(fac, cameras, point) ==
  computeEPLoop(fac, cameras, point, zeros(2 * Len(fac.keys_), 3), 1)

RECURSIVE computeJacobiansLoop(_, _, _, _, _, _, _, _)
\* the loop of computeJacobians(Fblocks, E, b, cameras, point) from
\* measurement i on
computeJacobiansLoop(fac, cameras, point, Fblocks, E, b, f, i) ==
  IF i > Len(fac.measured_) THEN Returned(i - 1, <<>>, Fblocks, E, b, f, <<>>)
  ELSE IF i > Len(cameras) THEN Failed("undefined", i - 1)
  ELSE LET pr == project(cameras[i], point)
           bi0 == VecScale(-1, VecSub(pr.pixel, fac.measured_[i], 2), 2)
       IN IF pr.cheirality THEN catchCheirality(i - 1)
          ELSE IF i > Len(fac.noise_) THEN Failed("out_of_range", i - 1)
          ELSE IF i > Len(fac.keys_) THEN Failed("undefined", i - 1)
          ELSE LET w == WhitenSystem(fac.noise_[i], pr.Fi, pr.Ei, pr.Hcali, bi0)
                   Hcam == [r \in 1..2 |-> w.Fi[r] \o w.Hcali[r]]
                   Fentry == IF D = 6 THEN <<fac.keys_[i], w.Fi>>
                             ELSE <<fac.keys_[i], Hcam>>
               IN computeJacobiansLoop(fac, cameras, point,
                    Append(Fblocks, Fentry),
                    SetRows(E, 2 * (i - 1), w.Ei, 2),
                    subInsert(b, w.bi, 2 * (i - 1), 2),
                    f + squaredNorm(w.bi, 2), i + 1)

\* computeJacobians(Fblocks, E, b, cameras, point); Fblocks is the caller's
\* vector, E and b are overwritten
computeJacobians(fac, Fblocks, cameras, point) ==
  computeJacobiansLoop(fac, cameras, point, Fblocks,
                       zeros(2 * Len(fac.keys_), 3), zero(2 * Len(fac.keys_)), 0, 1)

\* computeJacobians(Fblocks, E, PointCov, b, cameras, point, lambda,
\* diagonalDamping): the same, and the point covariance
computeJacobiansPointCov(fac, Fblocks, cameras, point, lambda, diagonalDamping) ==
  LET r == computeJacobians(fac, Fblocks, cameras, point)
      EtE == EtEof(r.E)
      DMatrix == [i \in 1..3 |-> [j \in 1..3 |->
                    IF i # j THEN 0 ELSE IF diagonalDamping THEN EtE[i][i] ELSE 1]]
      damped == [i \in 1..3 |-> [j \in 1..3 |-> EtE[i][j] + lambda * DMatrix[i][j]]]
  IN IF r.status # "ok" THEN r
     ELSE [r EXCEPT !.PointCov = inverse(damped)]

(***************************************************************************)
(* The Schur complement, dense and block-wise.  PointCov is the pair       *)
(* [num, den] standing for num / den; Gs and gs are returned as numerators *)
(* over the same den (den = 1: the integer matrix num itself).  Gs and gs  *)
(* come in sized by the caller; a slot not written holds the empty matrix. *)
(* writes lists the Gs slots in the order written, each <<slot, i1, i2>>   *)
(* counted from 0.                                                         *)
(***************************************************************************)
\* how a Schur call is recorded
SchurResult(status, Gs, gs, writes) ==
  [status |-> status, Gs |-> Gs, gs |-> gs, writes |-> writes]

\* the full F of schurComplement: Fblocks.at(i).second on the block diagonal
FullF(Fblocks, numKeys) ==
  [r \in 1..(2 * numKeys) |-> [c \in 1..(D * numKeys) |->
     IF (c - 1) \div D = (r - 1) \div 2
     THEN Fblocks[((r - 1) \div 2) + 1][2][((r - 1) % 2) + 1][((c - 1) % D) + 1]
     ELSE 0]]

RECURSIVE schurPopulate(_, _, _, _, _, _, _, _)
\* the two loops that populate Gs and gs, from pair t = i1 * numKeys + i2 on
schurPopulate(numKeys, H, gs_vector, Gs, gs, GsCount2, writes, t) ==
  IF t >= numKeys * numKeys THEN SchurResult("ok", Gs, gs, writes)
  ELSE LET i1 == t \div numKeys
           i2 == t % numKeys
           gs1 == IF i2 = 0
                  THEN [gs EXCEPT ![i1 + 1] = Segment(gs_vector, i1 * D, D)]
                  ELSE gs
       IN IF i2 = 0 /\ i1 >= Len(gs) THEN SchurResult("out_of_range", Gs, gs, writes)
          ELSE IF i2 >= i1
          THEN IF GsCount2 >= Len(Gs) THEN SchurResult("out_of_range", Gs, gs1, writes)
               ELSE schurPopulate(numKeys, H, gs_vector,
                      [Gs EXCEPT ![GsCount2 + 1] = Block(H, i1 * D, i2 * D, D, D)],
                      gs1, GsCount2 + 1, Append(writes, <<GsCount2, i1, i2>>), t + 1)
          ELSE schurPopulate(numKeys, H, gs_vector, Gs, gs1, GsCount2, writes, t + 1)

\* schurComplement(Fblocks, E, PointCov, b, Gs, gs), numKeys = keys_.size()
schurComplement(numKeys, Fblocks, E, PointCov, b, Gs, gs) ==
  IF Len(Fblocks) < numKeys THEN SchurResult("out_of_range", Gs, gs, <<>>)
  ELSE IF Len(E) # 2 * numKeys \/ Len(b) # 2 * numKeys
  THEN SchurResult("undefined", Gs, gs, <<>>)
  ELSE LET n2 == 2 * numKeys
           nD == D * numKeys
           F == FullF(Fblocks, numKeys)
           Ft == Transpose(F, n2, nD)
           EtF == MatMul(Transpose(E, n2, 3), F, 3, n2, nD)
           EPEtF == MatMul(E, MatMul(PointCov.num, EtF, 3, 3, nD), n2, 3, nD)
           H == MatMul(Ft, MatSub(MatScale(PointCov.den, F, n2, nD), EPEtF, n2, nD),
                       nD, n2, nD)
           Etb == MatVec(Transpose(E, n2, 3), b, 3, n2)
           EPEtb == MatVec(E, MatVec(PointCov.num, Etb, 3, 3), n2, 3)
           gs_vector == MatVec(Ft, VecSub(VecScale(PointCov.den, b, n2), EPEtb, n2),
                               nD, n2)
       IN schurPopulate(numKeys, H, gs_vector, Gs, gs, 0, <<>>, 0)

\* mutant of writesGs: the diagonal pairs are skipped
writesGsMut(i1, i2) == i2 > i1

\* mutant of offDiagonalBlock: the minus sign is lost
offDiagonalBlockMut(Fi1t, EF) == MatMul(Fi1t, EF, D, 2, D)

\* the block above the diagonal: - Fi1.transpose() * (E_invEtE_Et * Fi2)
offDiagonalBlock(Fi1t, EF) == MatScale(-1, MatMul(Fi1t, EF, D, 2, D), D, D)

\* sparseSchurComplement writes Gs.at(GsCount) for the diagonal pairs
\* (i2 == i1) and the pairs above the diagonal (i2 > i1)
writesGs(i1, i2) == i2 = i1 \/ i2 > i1

RECURSIVE sparseSchurLoop(_, _, _, _, _, _, _, _, _, _)
\* the two loops of sparseSchurComplement, from pair t = i1 * numKeys + i2 on
sparseSchurLoop(numKeys, Fblocks, E, PointCov, b, Gs, gs, GsCount, writes, t) ==
  IF t >= numKeys * numKeys THEN SchurResult("ok", Gs, gs, writes)
  ELSE LET i1 == t \div numKeys
           i2 == t % numKeys
       IN IF i1 >= Len(Fblocks) \/ i2 >= Len(Fblocks) \/ (i2 = 0 /\ i1 >= Len(gs))
          THEN SchurResult("out_of_range", Gs, gs, writes)
          ELSE IF 2 * i1 + 2 > Len(b) \/ 2 * i2 + 2 > Len(b)
                  \/ 2 * i1 + 2 > Len(E) \/ 2 * i2 + 2 > Len(E)
          THEN SchurResult("undefined", Gs, gs, writes)
          ELSE LET Fi1 == Fblocks[i1 + 1][2]
                   Fi2 == Fblocks[i2 + 1][2]
                   Fi1t == Transpose(Fi1, 2, D)
                   gs0 == IF i2 = 0
                          THEN [gs EXCEPT ![i1 + 1] =
                                  VecScale(PointCov.den,
                                           MatVec(Fi1t, Segment(b, 2 * i1, 2), D, 2), D)]
                          ELSE gs
                   E_invEtE_Et ==
                     MatMul(MatMul(Block(E, 2 * i1, 0, 2, 3), PointCov.num, 2, 3, 3),
                            Transpose(Block(E, 2 * i2, 0, 2, 3), 2, 3), 2, 3, 2)
                   gs1 == [gs0 EXCEPT ![i1 + 1] =
                             VecSub(@, MatVec(Fi1t,
                                        MatVec(E_invEtE_Et, Segment(b, 2 * i2, 2), 2, 2),
                                        D, 2), D)]
                   EF == MatMul(E_invEtE_Et, Fi2, 2, 2, D)
                   diag == MatMul(Fi1t, MatSub(MatScale(PointCov.den, Fi1, 2, D), EF, 2, D),
                                  D, 2, D)
                   offd == offDiagonalBlock(Fi1t, EF)
               IN IF writesGs(i1, i2)
                  THEN IF GsCount >= Len(Gs)
                       THEN SchurResult("out_of_range", Gs, gs1, writes)
                       ELSE sparseSchurLoop(numKeys, Fblocks, E, PointCov, b,
                              [Gs EXCEPT ![GsCount + 1] = IF i2 = i1 THEN diag ELSE offd],
                              gs1, GsCount + 1, Append(writes, <<GsCount, i1, i2>>), t + 1)
                  ELSE sparseSchurLoop(numKeys, Fblocks, E, PointCov, b, Gs, gs1,
                                       GsCount, writes, t + 1)

\* sparseSchurComplement(Fblocks, E, PointCov, b, Gs, gs), numKeys = keys_.size()
sparseSchurComplement(numKeys, Fblocks, E, PointCov, b, Gs, gs) ==
  sparseSchurLoop(numKeys, Fblocks, E, PointCov, b, Gs, gs, 0, <<>>, 0)

\* std::vector<Matrix> Gs(n), std::vector<Vector> gs(n): n empty entries
EmptyEntries(n) == [k \in 1..n |-> <<>>]

\* createHessianFactor(cameras, point, lambda, diagonalDamping): the keys,
\* Gs, gs and f handed to RegularHessianFactor
createHessianFactor(fac, cameras, point, lambda, diagonalDamping) ==
  LET numKeys == Len(fac.keys_)
      r == computeJacobiansPointCov(fac, <<>>, cameras, point, lambda, diagonalDamping)
      s == sparseSchurComplement(numKeys, r.Fblocks, r.E, r.PointCov, r.b,
                                 EmptyEntries((numKeys * (numKeys + 1)) \div 2),
                                 EmptyEntries(numKeys))
  IN IF r.status # "ok" THEN r
     ELSE IF s.status # "ok" THEN Failed(s.status, r.processed)
     ELSE [r EXCEPT !.value = [keys |-> fac.keys_, Gs |-> s.Gs, gs |-> s.gs,
                               f |-> r.f, writes |-> s.writes]]

\* createImplicitSchurFactor and createJacobianQFactor: Fblocks, E, PointCov
\* and b as computeJacobians leaves them in the new factor
createImplicitSchurFactor(fac, cameras, point, lambda, diagonalDamping) ==
  computeJacobiansPointCov(fac, <<>>, cameras, point, lambda, diagonalDamping)

createJacobianQFactor(fac, cameras, point, lambda, diagonalDamping) ==
  computeJacobiansPointCov(fac, <<>>, cameras, point, lambda, diagonalDamping)

(***************************************************************************)
(* equals.  tol is an integer; two pixels agree within tol when both       *)
(* coordinates differ by less than tol.                                    *)
(***************************************************************************)
Tols == {1, 2}

Abs(x) == IF x < 0 THEN -x ELSE x

\* Point2::equals(q, tol)
Point2Equals(p, q, tol) == Abs(p[1] - q[1]) < tol /\ Abs(p[2] - q[2]) < tol

\* NonlinearFactor::equals(p, tol): the keys agree
BaseEquals(fac, e) == fac.keys_ = e.keys_

\* mutant of areMeasurementsEqual: no break, every measurement is compared
areMeasurementsEqualMut(fac, e, tol) ==
  \A i \in 1..Len(fac.measured_) :
    i <= Len(e.measured_) /\ Point2Equals(fac.measured_[i], e.measured_[i], tol)

\* the for loop of equals: its body runs for i = 0 and the break ends it
areMeasurementsEqual(fac, e, tol) ==
  IF 0 < Len(fac.measured_)
  THEN Point2Equals(fac.measured_[1], e.measured_[1], tol)
  ELSE TRUE

\* equals(p, tol) on a p of the same type (the dynamic_cast succeeds);
\* e->measured_.at(0) throws when p holds no measurement
equals(fac, e, tol) ==
  IF 0 < Len(fac.measured_) /\ Len(e.measured_) = 0
  THEN [status |-> "out_of_range", value |-> FALSE]
  ELSE [status |-> "ok",
        value |-> /\ BaseEquals(fac, e)
                  /\ areMeasurementsEqual(fac, e, tol)
                  /\ \/ (fac.body_P_sensor_ = <<>> /\ e.body_P_sensor_ = <<>>)
                     \/ (/\ fac.body_P_sensor_ # <<>>
                         /\ e.body_P_sensor_ # <<>>
                         /\ fac.body_P_sensor_[1] = e.body_P_sensor_[1])]

(***************************************************************************)
(* Serialization.  An archive is the sequence of numbers written: a vector *)
(* as its length and its items, a pixel as x then y, the optional offset   *)
(* as 0, or 1 and the value.  noise_ is not written; a factor read back    *)
(* is a newly constructed one with the three members loaded.               *)
(***************************************************************************)
RECURSIVE Flatten(_)
\* the pixels of a vector written one after the other
Flatten(ms) == IF ms = <<>> THEN <<>> ELSE <<ms[1][1], ms[1][2]>> \o Flatten(Tail(ms))

\* the base class's part of the archive: keys_
BaseSerialize(fac) == <<Len(fac.keys_)>> \o fac.keys_

\* mutant of serialize: body_P_sensor_ is not written
serializeMut(fac) ==
  BaseSerialize(fac) \o (<<Len(fac.measured_)>> \o Flatten(fac.measured_)) \o <<0>>

\* serialize, saving: Base, measured_, body_P_sensor_
serialize(fac) ==
  BaseSerialize(fac)
  \o (<<Len(fac.measured_)>> \o Flatten(fac.measured_))
  \o (IF fac.body_P_sensor_ = <<>> THEN <<0>> ELSE <<1, fac.body_P_sensor_[1]>>)

\* serialize, loading
deserialize(ar) ==
  LET nk == ar[1]
      ks == SubSeq(ar, 2, 1 + nk)
      r1 == SubSeq(ar, 2 + nk, Len(ar))
      nm == r1[1]
      ms == [i \in 1..nm |-> <<r1[2 * i], r1[2 * i + 1]>>]
      r2 == SubSeq(r1, 2 + 2 * nm, Len(r1))
      o == IF r2[1] = 0 THEN <<>> ELSE <<r2[2]>>
  IN Factor(ms, ks, <<>>, o)

(***************************************************************************)
(* The factor as a state machine: one action per public operation, called  *)
(* by a single-threaded caller.  ret records the call the caller has made  *)
(* and not yet returned from: its name, how it ended, its inputs and what  *)
(* it returned; Return takes the caller back to where it makes a call.     *)
(***************************************************************************)
Ret(op, status, in, out) == [op |-> op, status |-> status, in |-> in, out |-> out]

Idle == Ret("idle", "ok", <<>>, <<>>)
NoFactor == Factor(<<>>, <<>>, <<>>, <<>>)
NoLin == [Fblocks |-> <<>>, E |-> <<>>, PointCov |-> [num |-> <<>>, den |-> 1], b |-> <<>>]

\* the inputs the calls are given: lambda and diagonalDamping as a pair
Dampings == {<<0, FALSE>>, <<1, FALSE>>, <<1, TRUE>>}
CameraSets == SeqsUpTo(Cams, MaxLen)
\* cameras[i] is not range-checked: the calls that use it are made with a
\* camera for every measurement
EnoughCameras == {cs \in CameraSets : Len(cs) >= Len(measured_)}
\* the caller's Fblocks: empty, or holding a block of an earlier call
CallerFblocks == {<<>>, << <<1, zeros(2, D)>> >>}

\* the state variables take the fields of factor fac
Becomes(fac) ==
  /\ measured_' = fac.measured_
  /\ keys_' = fac.keys_
  /\ noise_' = fac.noise_
  /\ body_P_sensor_' = fac.body_P_sensor_

Init ==
  /\ \E o \in Offsets :
       /\ measured_ = <<>>
       /\ keys_ = <<>>
       /\ noise_ = <<>>
       /\ body_P_sensor_ = o
  /\ archive = <<>>
  /\ other = NoFactor
  /\ pend = <<>>
  /\ lin = NoLin
  /\ ret = Idle

Return ==
  /\ ret # Idle
  /\ ret' = Idle
  /\ UNCHANGED <<measured_, keys_, noise_, body_P_sensor_, archive, other, pend, lin>>

Add ==
  \E o \in Observations :
    /\ ret = Idle
    /\ Len(measured_) < MaxLen
    /\ Becomes(add(This, o[1], o[2], o[3]))
    /\ ret' = Ret("add", "ok", <<>>, <<>>)
    /\ UNCHANGED <<archive, other, pend, lin>>

AddNoises ==
  \E zs \in SeqsUpTo(BatchPixels, MaxBatch), ks \in SeqsUpTo(BatchKeys, MaxBatch),
     ns \in SeqsUpTo(BatchNoises, MaxBatch) :
    /\ ret = Idle
    /\ Len(measured_) + Len(zs) <= MaxLen
    /\ LET r == addNoises(This, zs, ks, ns)
       IN /\ Becomes(r.factor)
          /\ ret' = Ret("addNoises", r.status,
                        [nm |-> Len(zs), nk |-> Len(ks), nn |-> Len(ns)], <<>>)
    /\ UNCHANGED <<archive, other, pend, lin>>

AddShared ==
  \E zs \in SeqsUpTo(BatchPixels, MaxBatch), ks \in SeqsUpTo(BatchKeys, MaxBatch),
     n \in BatchNoises :
    /\ ret = Idle
    /\ Len(measured_) + Len(zs) <= MaxLen
    /\ LET r == addShared(This, zs, ks, n)
       IN /\ Becomes(r.factor)
          /\ ret' = Ret("addShared", r.status,
                        [nm |-> Len(zs), nk |-> Len(ks), nn |-> Len(zs)], <<>>)
    /\ UNCHANGED <<archive, other, pend, lin>>

AddTrack ==
  \E t \in SeqsUpTo(TrackEntries, MaxBatch), n \in BatchNoises :
    /\ ret = Idle
    /\ Len(measured_) + Len(t) <= MaxLen
    /\ Becomes(addTrack(This, t, n))
    /\ ret' = Ret("addTrack", "ok", <<>>, <<>>)
    /\ UNCHANGED <<archive, other, pend, lin>>

Serialize ==
  /\ ret = Idle
  /\ archive' = serialize(This)
  /\ ret' = Ret("serialize", "ok", <<>>, <<>>)
  /\ UNCHANGED <<measured_, keys_, noise_, body_P_sensor_, other, pend, lin>>

\* loading constructs a second factor object, other, from the archive
Deserialize ==
  /\ ret = Idle
  /\ archive # <<>>
  /\ other' = deserialize(archive)
  /\ ret' = Ret("deserialize", "ok", <<>>, <<>>)
  /\ UNCHANGED <<measured_, keys_, noise_, body_P_sensor_, archive, pend, lin>>

\* a call that reads the factor and leaves it as it is
Call(op, in, r) ==
  /\ ret = Idle
  /\ ret' = Ret(op, r.status, in, r)
  /\ UNCHANGED <<measured_, keys_, noise_, body_P_sensor_, archive, other, pend, lin>>

ReprojectionError ==
  \E cameras \in CameraSets, point \in Points :
    Call("reprojectionError", [cameras |-> cameras, point |-> point],
         reprojectionError(This, cameras, point))

TotalReprojectionError ==
  \E cameras \in CameraSets, point \in Points :
    Call("totalReprojectionError", [cameras |-> cameras, point |-> point],
         totalReprojectionError(This, cameras, point))

ComputeEP ==
  \E cameras \in EnoughCameras, point \in Points :
    Call("computeEP", [cameras |-> cameras, point |-> point],
         computeEP(This, cameras, point))

ComputeJacobians ==
  \E Fblocks \in CallerFblocks, cameras \in EnoughCameras, point \in Points :
    Call("computeJacobians",
         [cameras |-> cameras, point |-> point, Fblocks |-> Fblocks],
         computeJacobians(This, Fblocks, cameras, point))

CreateHessianFactor ==
  \E cameras \in EnoughCameras, point \in Points, d \in Dampings :
    Call("createHessianFactor",
         [cameras |-> cameras, point |-> point, lambda |-> d[1],
          diagonalDamping |-> d[2]],
         createHessianFactor(This, cameras, point, d[1], d[2]))

CreateImplicitSchurFactor ==
  \E cameras \in EnoughCameras, point \in Points, d \in Dampings :
    Call("createImplicitSchurFactor",
         [cameras |-> cameras, point |-> point, lambda |-> d[1],
          diagonalDamping |-> d[2]],
         createImplicitSchurFactor(This, cameras, point, d[1], d[2]))

CreateJacobianQFactor ==
  \E cameras \in EnoughCameras, point \in Points, d \in Dampings :
    Call("createJacobianQFactor",
         [cameras |-> cameras, point |-> point, lambda |-> d[1],
          diagonalDamping |-> d[2]],
         createJacobianQFactor(This, cameras, point, d[1], d[2]))

\* the measurement set: construction, the four adds, saving and loading
Next ==
  \/ Return
  \/ Add
  \/ AddNoises
  \/ AddShared
  \/ AddTrack
  \/ Serialize
  \/ Deserialize

Spec == Init /\ [][Next]_vars

\* linearization: the four adds and the calls that read the factor
NextLin ==
  \/ Return
  \/ Add
  \/ AddNoises
  \/ AddShared
  \/ AddTrack
  \/ ReprojectionError
  \/ TotalReprojectionError
  \/ ComputeEP
  \/ ComputeJacobians
  \/ CreateHessianFactor
  \/ CreateImplicitSchurFactor
  \/ CreateJacobianQFactor

SpecLin == Init /\ [][NextLin]_vars

(***************************************************************************)
(* The claims about the measurement set (Spec).                            *)
(***************************************************************************)
\* C1: after any sequence of the four add operations on a newly constructed
\* factor, batch adds that stop partway included, measured_, keys_ and
\* noise_ have the same length.
C1_ParallelArraysSameLength ==
  Len(measured_) = Len(keys_) /\ Len(keys_) = Len(noise_)

\* C2: a batch add whose input vectors do not all have the same length ends
\* with an error, whichever of them is the longest.
C2_MismatchedBatchFails ==
  (/\ ret.op \in {"addNoises", "addShared"}
   /\ ~(ret.in.nm = ret.in.nk /\ ret.in.nk = ret.in.nn))
  => ret.status = "out_of_range"

\* the factor read back agrees with fac on measurements, keys and offset
SameAsSaved(loaded, fac) ==
  /\ loaded.measured_ = fac.measured_
  /\ loaded.keys_ = fac.keys_
  /\ loaded.body_P_sensor_ = fac.body_P_sensor_

\* C8: saving a factor and loading the archive gives a factor with the same
\* measurements in the same order, the same keys in the same order and the
\* same sensor offset (absent stays absent), for every factor the adds reach.
C8_SerializeRoundTrip ==
  /\ ret.op = "serialize" => SameAsSaved(deserialize(archive), This)
  /\ (ret.op = "deserialize" /\ archive = serialize(This)) => SameAsSaved(other, This)

\* C8 happens: a factor with two different measurements, two different keys
\* and a sensor offset was saved and read back
C8_Witness ==
  /\ ret.op = "deserialize"
  /\ archive = serialize(This)
  /\ Len(measured_) = 2 /\ measured_[1] # measured_[2]
  /\ Len(keys_) = 2 /\ keys_[1] # keys_[2]
  /\ body_P_sensor_ # <<>>
  /\ SameAsSaved(other, This)

(***************************************************************************)
(* The claims about linearization (SpecLin).                               *)
(***************************************************************************)
LinOps ==
  {"reprojectionError", "totalReprojectionError", "computeEP", "computeJacobians",
   "createHessianFactor", "createImplicitSchurFactor", "createJacobianQFactor"}

\* every camera composed with the sensor offset
OffsetCameras(cameras, body_P_sensor) ==
  [i \in 1..Len(cameras) |-> compose(cameras[i], body_P_sensor[1])]

\* C3: with a sensor offset, every projection of reprojectionError,
\* totalReprojectionError, computeEP and computeJacobians is that of camera i
\* composed with body_P_sensor: the call returns what the offset cameras give.
C3_ProjectionsUseSensorOffset ==
  (body_P_sensor_ # <<>> /\ ret.op \in LinOps) =>
    LET cams == OffsetCameras(ret.in.cameras, body_P_sensor_)
        pt == ret.in.point
    IN /\ ret.op = "reprojectionError" => ret.out = reprojectionError(This, cams, pt)
       /\ ret.op = "totalReprojectionError" =>
            ret.out = totalReprojectionError(This, cams, pt)
       /\ ret.op = "computeEP" => ret.out = computeEP(This, cams, pt)
       /\ ret.op = "computeJacobians" =>
            ret.out = computeJacobians(This, ret.in.Fblocks, cams, pt)

\* the first of the first m cameras the point is behind, counted from 1;
\* 0 when it is in front of them all
FirstBehind(cameras, point, m) ==
  LET behind == {i \in 1..m : i <= Len(cameras) /\ project(cameras[i], point).cheirality}
  IN IF behind = {} THEN 0 ELSE CHOOSE i \in behind : \A j \in behind : i <= j

\* the loop of op gets to the projection of camera i: no noise_.at(j) of an
\* earlier measurement j throws (reprojectionError reads no noise)
ReachesCamera(op, i) ==
  op = "reprojectionError" \/ (Len(noise_) >= i - 1 /\ Len(keys_) >= i - 1)

\* C4: when the point is behind camera i, one of the first m, the call does
\* not return: no residual, error, Jacobian or factor reaches the caller and
\* no measurement from i on is processed; when the loop gets to projecting
\* camera i the call ends in the cheirality exit, with exactly the
\* measurements before i processed.
C4_CheiralityEndsTheCall ==
  ret.op \in LinOps =>
    LET i == FirstBehind(ret.in.cameras, ret.in.point, Len(measured_))
    IN i > 0 =>
         /\ ret.status # "ok"
         /\ ret.out = Failed(ret.status, ret.out.processed)
         /\ ret.out.processed < i
         /\ ReachesCamera(ret.op, i) =>
              (ret.status = "exit" /\ ret.out.processed = i - 1)

\* C4 happens: the second camera of two is the one behind, the first
\* measurement was processed and the call exited
C4_Witness ==
  /\ ret.op = "createHessianFactor"
  /\ Len(measured_) = 2
  /\ FirstBehind(ret.in.cameras, ret.in.point, 2) = 2
  /\ ret.status = "exit"
  /\ ret.out.processed = 1

\* position of the block pair (i1, i2), i1 <= i2, in the upper triangle
\* stored row after row, all counted from 0
SlotOf(i1, i2, m) == i1 * m - ((i1 * (i1 - 1)) \div 2) + (i2 - i1)

\* C5: called by createHessianFactor on a factor of m >= 1 keys,
\* sparseSchurComplement stays inside Gs (m(m+1)/2 slots) and gs (m slots),
\* writes every slot of Gs exactly once, in the order G00, G01, ..., G0(m-1),
\* G11, ..., the pair (i1, i2), i1 <= i2, at i1*m - i1(i1-1)/2 + (i2 - i1),
\* and writes nothing for i2 < i1.
C5_SparseSchurSlots ==
  (/\ ret.op = "createHessianFactor"
   /\ Len(keys_) >= 1
   /\ computeJacobiansPointCov(This, <<>>, ret.in.cameras, ret.in.point,
                               ret.in.lambda, ret.in.diagonalDamping).status = "ok")
  => LET m == Len(keys_)
         n == (m * (m + 1)) \div 2
         w == ret.out.value.writes
     IN /\ ret.status = "ok"
        /\ Len(ret.out.value.Gs) = n
        /\ Len(ret.out.value.gs) = m
        /\ Len(w) = n
        /\ \A s \in 0..(n - 1) : Cardinality({j \in 1..Len(w) : w[j][1] = s}) = 1
        /\ \A j \in 1..Len(w) :
             /\ w[j][1] = j - 1
             /\ w[j][2] <= w[j][3]
             /\ w[j][1] = SlotOf(w[j][2], w[j][3], m)
        /\ \A i1 \in 0..(m - 1) : \A i2 \in i1..(m - 1) :
             \E j \in 1..Len(w) : w[j] = <<SlotOf(i1, i2, m), i1, i2>>
        /\ \A k \in 1..n : ret.out.value.Gs[k] # <<>>

\* C5 happens: a Hessian factor over two keys was built, its three slots
\* written
C5_Witness ==
  /\ ret.op = "createHessianFactor"
  /\ ret.status = "ok"
  /\ Len(keys_) = 2
  /\ ret.out.value.writes = << <<0, 0, 0>>, <<1, 0, 1>>, <<2, 1, 1>> >>

\* what computeJacobians is to leave for measurement i and camera i: the
\* key, and the whitened F, E and b blocks
ExpectedBlocks(cameras, point, i) ==
  LET pr == project(cameras[i], point)
      n == noise_[i]
  IN [key |-> keys_[i],
      F |-> [r \in 1..2 |-> [c \in 1..D |->
               IF c <= 6 THEN n * pr.Fi[r][c] ELSE n * pr.Hcali[r][c - 6]]],
      E |-> [r \in 1..2 |-> [c \in 1..3 |-> n * pr.Ei[r][c]]],
      b |-> [r \in 1..2 |-> n * (measured_[i][r] - pr.pixel[r])]]

\* Fblocks, E and b as C7 states them, from index `from` of Fblocks on
RowLayout(out, cameras, point, m, from) ==
  /\ Len(out.E) = 2 * m
  /\ Len(out.b) = 2 * m
  /\ \A i \in 1..m :
       LET x == ExpectedBlocks(cameras, point, i)
       IN /\ out.Fblocks[from + i] = <<x.key, x.F>>
          /\ out.E[2 * i - 1] = x.E[1] /\ out.E[2 * i] = x.E[2]
          /\ out.b[2 * i - 1] = x.b[1] /\ out.b[2 * i] = x.b[2]

\* C7: every call of computeJacobians(Fblocks, E, b, cameras, point) on a
\* factor of m >= 1 measurements and m cameras that returns leaves exactly m
\* entries in Fblocks, entry i with key keys_[i], E with 2m rows, b of length
\* 2m, rows 2i..2i+1 of E and b those of measurement i and camera i.
C7_JacobianRowLayout ==
  (/\ ret.op = "computeJacobians"
   /\ ret.status = "ok"
   /\ Len(measured_) >= 1
   /\ Len(ret.in.cameras) = Len(measured_))
  => /\ Len(ret.out.Fblocks) = Len(measured_)
     /\ RowLayout(ret.out, ret.in.cameras, ret.in.point, Len(measured_), 0)

\* C7 as the code has it: the m entries are appended to what the caller's
\* Fblocks held, so the layout holds from there on (checked beside C7)
C7_AppendedRowLayout ==
  (/\ ret.op = "computeJacobians"
   /\ ret.status = "ok"
   /\ Len(measured_) >= 1
   /\ Len(ret.in.cameras) = Len(measured_))
  => /\ Len(ret.out.Fblocks) = Len(ret.in.Fblocks) + Len(measured_)
     /\ SubSeq(ret.out.Fblocks, 1, Len(ret.in.Fblocks)) = ret.in.Fblocks
     /\ RowLayout(ret.out, ret.in.cameras, ret.in.point, Len(measured_),
                  Len(ret.in.Fblocks))

(***************************************************************************)
(* The two Schur complements on their own (SpecSchur): a factor of m keys  *)
(* and assembled blocks Fblocks, E, PointCov, b of m measurements, drawn   *)
(* from small sets of integer matrices; Gs and gs sized as                 *)
(* createHessianFactor sizes them.                                         *)
(***************************************************************************)
SchurF ==
  {[r \in 1..2 |-> [c \in 1..D |-> IF c = r THEN 1 ELSE 0]],
   [r \in 1..2 |-> [c \in 1..D |-> ((r + c) % 3) - 1]]}
SchurE == {<< <<1, 0, 0>>, <<0, 1, 0>> >>, << <<1, 0, 1>>, <<0, 1, -1>> >>}
SchurPointCov ==
  {eye(3), << <<2, 1, 0>>, <<1, 1, 0>>, <<0, 0, 1>> >>,
   << <<1, 2, 0>>, <<0, 1, 0>>, <<0, 0, -1>> >>}
Schurb == {<<1, 0>>, <<-1, 2>>}

RECURSIVE Stack(_)
\* the blocks of a sequence one under the other
Stack(blocks) == IF blocks = <<>> THEN <<>> ELSE blocks[1] \o Stack(Tail(blocks))

\* m blocks taken in turn from a pair: the first, the second, the first, ...
Alternate(pair, m) == [i \in 1..m |-> pair[2 - (i % 2)]]

InitSchur ==
  /\ \E m \in 1..MaxLen :
       /\ measured_ = [i \in 1..m |-> <<0, 0>>]
       /\ keys_ = [i \in 1..m |-> i]
       /\ noise_ = [i \in 1..m |-> 1]
       /\ \E Fs \in SchurF \X SchurF, Es \in SchurE \X SchurE,
             P \in SchurPointCov, bs \in {p \in Schurb \X Schurb : p[1] # p[2]} :
            lin = [Fblocks |-> [i \in 1..m |-> <<keys_[i], Alternate(Fs, m)[i]>>],
                   E |-> Stack(Alternate(Es, m)),
                   PointCov |-> [num |-> P, den |-> 1],
                   b |-> Stack(Alternate(bs, m))]
  /\ body_P_sensor_ = <<>>
  /\ archive = <<>>
  /\ other = NoFactor
  /\ pend = <<>>
  /\ ret = Idle

\* the Gs and gs createHessianFactor hands over
HessianGs == EmptyEntries((Len(keys_) * (Len(keys_) + 1)) \div 2)
Hessiangs == EmptyEntries(Len(keys_))

SchurComplement ==
  /\ ret = Idle
  /\ LET r == schurComplement(Len(keys_), lin.Fblocks, lin.E, lin.PointCov, lin.b,
                              HessianGs, Hessiangs)
     IN ret' = Ret("schurComplement", r.status, <<>>, r)
  /\ UNCHANGED <<measured_, keys_, noise_, body_P_sensor_, archive, other, pend, lin>>

SparseSchurComplement ==
  /\ ret = Idle
  /\ LET r == sparseSchurComplement(Len(keys_), lin.Fblocks, lin.E, lin.PointCov,
                                    lin.b, HessianGs, Hessiangs)
     IN ret' = Ret("sparseSchurComplement", r.status, <<>>, r)
  /\ UNCHANGED <<measured_, keys_, noise_, body_P_sensor_, archive, other, pend, lin>>

NextSchur ==
  \/ Return
  \/ SchurComplement
  \/ SparseSchurComplement

SpecSchur == InitSchur /\ [][NextSchur]_vars

\* Ei1 * PointCov * Ei2' entry (r, s), blocks counted from 0
RefEPE(i1, i2, r, s) ==
  SumTo([u \in 1..3 |->
           SumTo([v \in 1..3 |->
                    lin.E[2 * i1 + r][u] * lin.PointCov.num[u][v] * lin.E[2 * i2 + s][v]],
                 3)], 3)

\* entry a of F_i1' * (b_i1 - sum over i2 of E_i1 * PointCov * E_i2' * b_i2)
RefGradient(i1, a) ==
  LET m == Len(keys_)
      inner(r) ==
        lin.b[2 * i1 + r]
        - SumTo([k \in 1..m |->
                   SumTo([s \in 1..2 |-> RefEPE(i1, k - 1, r, s) * lin.b[2 * (k - 1) + s]],
                         2)], m)
  IN SumTo([r \in 1..2 |-> lin.Fblocks[i1 + 1][2][r][a] * inner(r)], 2)

\* entry (a, c) of the (i1, i2) block of F' * (F - E * PointCov * E' * F)
RefHessian(i1, i2, a, c) ==
  LET inner(r) ==
        (IF i1 = i2 THEN lin.Fblocks[i2 + 1][2][r][c] ELSE 0)
        - SumTo([s \in 1..2 |-> RefEPE(i1, i2, r, s) * lin.Fblocks[i2 + 1][2][s][c]], 2)
  IN SumTo([r \in 1..2 |-> lin.Fblocks[i1 + 1][2][r][a] * inner(r)], 2)

\* C6: on the same Fblocks, E, PointCov and b, schurComplement and
\* sparseSchurComplement give the same gs and the same Gs: gs[i1] is
\* F_i1' * (b_i1 - sum_i2 E_i1 * PointCov * E_i2' * b_i2) and the block at
\* each upper-triangle position is that block of F' * (F - E*PointCov*E'*F).
C6_DenseEqualsSparse ==
  LET m == Len(keys_)
      dense == schurComplement(m, lin.Fblocks, lin.E, lin.PointCov, lin.b,
                               HessianGs, Hessiangs)
      sparse == sparseSchurComplement(m, lin.Fblocks, lin.E, lin.PointCov, lin.b,
                                      HessianGs, Hessiangs)
  IN /\ ret.op = "schurComplement" =>
          (ret.out.Gs = sparse.Gs /\ ret.out.gs = sparse.gs /\ ret.status = sparse.status)
     /\ ret.op = "sparseSchurComplement" =>
          (ret.out.Gs = dense.Gs /\ ret.out.gs = dense.gs /\ ret.status = dense.status)
     /\ ret.op \in {"schurComplement", "sparseSchurComplement"} =>
          /\ ret.status = "ok"
          /\ \A i1 \in 0..(m - 1) :
               /\ ret.out.gs[i1 + 1] = [a \in 1..D |-> RefGradient(i1, a)]
               /\ \A i2 \in i1..(m - 1) :
                    ret.out.Gs[SlotOf(i1, i2, m) + 1] =
                      [a \in 1..D |-> [c \in 1..D |-> RefHessian(i1, i2, a, c)]]

\* C6 happens: the block-wise routine ran on two measurements with a
\* PointCov that is not the identity and left a block above the diagonal
\* that is not zero
C6_Witness ==
  /\ ret.op = "sparseSchurComplement"
  /\ ret.status = "ok"
  /\ Len(keys_) = 2
  /\ lin.PointCov.num # eye(3)
  /\ ret.out.Gs[2] # zeros(D, D)
  /\ ret.out.gs[1] # zero(D)

(***************************************************************************)
(* Two factors built from the same measurements (SpecBatch): this one by   *)
(* single adds, other by one batch add with the shared noise.  pend holds  *)
(* the noise of the round and what this factor got since other's last      *)
(* batch.                                                                  *)
(***************************************************************************)
InitBatch ==
  /\ \E o \in Offsets :
       /\ measured_ = <<>>
       /\ keys_ = <<>>
       /\ noise_ = <<>>
       /\ body_P_sensor_ = o
       /\ other = SmartFactorBase(o)
  /\ \E n \in Noises : pend = [zs |-> <<>>, ks |-> <<>>, noise |-> n]
  /\ archive = <<>>
  /\ lin = NoLin
  /\ ret = Idle

\* the caller settles on the noise of the next round
ChooseNoise ==
  \E n \in Noises :
    /\ ret = Idle
    /\ pend.zs = <<>>
    /\ pend.noise # n
    /\ pend' = [pend EXCEPT !.noise = n]
    /\ UNCHANGED <<measured_, keys_, noise_, body_P_sensor_, archive, other, lin, ret>>

AddOneAtATime ==
  \E z \in Pixels, k \in Keys :
    /\ ret = Idle
    /\ Len(measured_) < MaxLen
    /\ Becomes(add(This, z, k, pend.noise))
    /\ pend' = [pend EXCEPT !.zs = Append(@, z), !.ks = Append(@, k)]
    /\ ret' = Ret("add", "ok", <<>>, <<>>)
    /\ UNCHANGED <<archive, other, lin>>

AddInOneBatch ==
  /\ ret = Idle
  /\ LET r == addShared(other, pend.zs, pend.ks, pend.noise)
     IN /\ other' = r.factor
        /\ ret' = Ret("addShared", r.status,
                      [nm |-> Len(pend.zs), nk |-> Len(pend.ks), nn |-> Len(pend.zs)],
                      <<>>)
  /\ pend' = [pend EXCEPT !.zs = <<>>, !.ks = <<>>]
  /\ UNCHANGED <<measured_, keys_, noise_, body_P_sensor_, archive, lin>>

EqualsOther ==
  \E tol \in Tols :
    /\ ret = Idle
    /\ LET r == equals(This, other, tol)
       IN ret' = Ret("equals", r.status, [tol |-> tol], r)
    /\ UNCHANGED <<measured_, keys_, noise_, body_P_sensor_, archive, other, pend, lin>>

NextBatch ==
  \/ Return
  \/ ChooseNoise
  \/ AddOneAtATime
  \/ AddInOneBatch
  \/ EqualsOther

SpecBatch == InitBatch /\ [][NextBatch]_vars

\* C9: from two factors in the same state, m measurements added one at a
\* time with noise N and the same measurements and keys added in one batch
\* with the shared noise N leave the factors in equal states, measured_,
\* keys_ and noise_ identical element by element, and equals returns true.
C9_BatchEqualsOneByOne ==
  pend.zs = <<>> =>
    /\ other = This
    /\ \A i \in 1..Len(measured_) :
         /\ other.measured_[i] = measured_[i]
         /\ other.keys_[i] = keys_[i]
         /\ other.noise_[i] = noise_[i]
    /\ ret.op = "addShared" => ret.status = "ok"
    /\ ret.op = "equals" => (ret.status = "ok" /\ ret.out.value)
    /\ \A tol \in Tols : equals(This, other, tol) = [status |-> "ok", value |-> TRUE]

\* C9 happens: two measurements with different pixels and keys went into
\* this factor one by one and into other in one batch
C9_Witness ==
  /\ ret.op = "addShared"
  /\ ret.in.nm = 2
  /\ pend.zs = <<>>
  /\ Len(measured_) = 2 /\ measured_[1] # measured_[2] /\ keys_[1] # keys_[2]
  /\ other = This

(***************************************************************************)
(* Two factors built independently and compared (SpecPair).                *)
(***************************************************************************)
InitPair ==
  /\ \E o \in Offsets :
       /\ measured_ = <<>>
       /\ keys_ = <<>>
       /\ noise_ = <<>>
       /\ body_P_sensor_ = o
  /\ \E o \in Offsets : other = SmartFactorBase(o)
  /\ archive = <<>>
  /\ pend = <<>>
  /\ lin = NoLin
  /\ ret = Idle

AddThis ==
  \E z \in Pixels, k \in Keys, n \in BatchNoises :
    /\ ret = Idle
    /\ Len(measured_) < MaxLen
    /\ Becomes(add(This, z, k, n))
    /\ ret' = Ret("add", "ok", <<>>, <<>>)
    /\ UNCHANGED <<archive, other, pend, lin>>

AddOther ==
  \E z \in Pixels, k \in Keys, n \in BatchNoises :
    /\ ret = Idle
    /\ Len(other.measured_) < MaxLen
    /\ other' = add(other, z, k, n)
    /\ ret' = Ret("add", "ok", <<>>, <<>>)
    /\ UNCHANGED <<measured_, keys_, noise_, body_P_sensor_, archive, pend, lin>>

NextPair ==
  \/ Return
  \/ AddThis
  \/ AddOther
  \/ EqualsOther

SpecPair == InitPair /\ [][NextPair]_vars

\* the case of C10: equal keys, equal or both absent offsets, the same
\* number m >= 2 of measurements, measurement 0 agreeing within tol
FirstMeasurementAgrees(tol) ==
  /\ keys_ = other.keys_
  /\ body_P_sensor_ = other.body_P_sensor_
  /\ Len(measured_) = Len(other.measured_)
  /\ Len(measured_) >= 2
  /\ Point2Equals(measured_[1], other.measured_[1], tol)

\* C10: equals compares only the first measurement: with equal keys, equal
\* or both absent offsets and the same number m >= 2 of measurements it
\* returns true whenever measurement 0 agrees within tol, whatever
\* measurements 1..m-1 are.
C10_EqualsComparesFirstOnly ==
  (ret.op = "equals" /\ FirstMeasurementAgrees(ret.in.tol)) =>
    (ret.status = "ok" /\ ret.out.value)

\* C10 happens: equals returned true on two factors whose second
\* measurements differ by more than tol
C10_Witness ==
  /\ ret.op = "equals"
  /\ FirstMeasurementAgrees(ret.in.tol)
  /\ ~Point2Equals(measured_[2], other.measured_[2], ret.in.tol)
  /\ ret.status = "ok"
  /\ ret.out.value

(***************************************************************************)
(* A factor saved and restored, and the restored factor linearized         *)
(* (SpecRestore).  The factor is filled by single adds, so its three       *)
(* arrays have the same length when it is saved; other is the factor read  *)
(* back from the archive.                                                  *)
(***************************************************************************)
\* a camera for every measurement of the restored factor
RestoredCameras == {cs \in CameraSets : Len(cs) = Len(other.measured_)}

\* a const member call on the restored factor
CallRestored(op, in, r) ==
  /\ other # NoFactor
  /\ Call(op, in, r)

TotalReprojectionErrorRestored ==
  \E cameras \in RestoredCameras, point \in Points :
    CallRestored("restored.totalReprojectionError",
                 [cameras |-> cameras, point |-> point],
                 totalReprojectionError(other, cameras, point))

ComputeEPRestored ==
  \E cameras \in RestoredCameras, point \in Points :
    CallRestored("restored.computeEP", [cameras |-> cameras, point |-> point],
                 computeEP(other, cameras, point))

ComputeJacobiansRestored ==
  \E cameras \in RestoredCameras, point \in Points :
    CallRestored("restored.computeJacobians",
                 [cameras |-> cameras, point |-> point, Fblocks |-> <<>>],
                 computeJacobians(other, <<>>, cameras, point))

NextRestore ==
  \/ Return
  \/ Add
  \/ Serialize
  \/ Deserialize
  \/ TotalReprojectionErrorRestored
  \/ ComputeEPRestored
  \/ ComputeJacobiansRestored

SpecRestore == Init /\ [][NextRestore]_vars

RestoredOps ==
  {"restored.totalReprojectionError", "restored.computeEP", "restored.computeJacobians"}

\* the point is in front of every camera of the call
InFrontOfAll(cameras, point) ==
  \A i \in 1..Len(cameras) : ~project(cameras[i], point).cheirality

\* C11: a factor restored from a saved factor of m >= 1 measurements has
\* measured_, keys_ and noise_ of the same length m, and
\* totalReprojectionError, computeEP and computeJacobians on it read
\* noise_.at(i) for every measurement i without an out-of-range failure.
C11_RestoredFactorKeepsNoise ==
  /\ (ret.op = "deserialize" /\ Len(other.measured_) >= 1) =>
       /\ Len(other.keys_) = Len(other.measured_)
       /\ Len(other.noise_) = Len(other.measured_)
  /\ (ret.op \in RestoredOps /\ Len(other.measured_) >= 1) =>
       ret.status # "out_of_range"

\* what the restored factor does hold: the measurements and keys that were
\* saved and no noise at all, so that with the point in front of every
\* camera each of the three calls ends out of range at measurement 0
C11_RestoredFactorHasNoNoise ==
  /\ (ret.op = "deserialize" /\ Len(other.measured_) >= 1) =>
       /\ Len(other.keys_) = Len(other.measured_)
       /\ other.noise_ = <<>>
  /\ (/\ ret.op \in RestoredOps
      /\ Len(other.measured_) >= 1
      /\ InFrontOfAll(ret.in.cameras, ret.in.point)) =>
       (ret.status = "out_of_range" /\ ret.out.processed = 0)

====
